---------------------------- MODULE Spec2Model ----------------------------
(***************************************************************************)
(* Conway's Game of Life for the WHY2025 badge (src/gameoflife.c).         *)
(*                                                                         *)
(* The program is a set of SDL callbacks run by one thread: SDL_AppInit,   *)
(* SDL_AppIterate (one call per frame), SDL_AppEvent and SDL_AppQuit.      *)
(* The state is the AppState structure (grid, clock, handles) and the      *)
(* position of the running callback.  A history variable, last, records    *)
(* what the most recent callback read, did and returned.                   *)
(*                                                                         *)
(* Scaling.  The grid is GAME_WIDTH x GAME_HEIGHT = 24 x 18 in the source  *)
(* and the step period is 250 ms; the model keeps the code and scales      *)
(* these numbers down.  The dimensions are fixed by each specification's   *)
(* initial state (variable dim, never changed afterwards).  Uint64 values  *)
(* are kept modulo Uint64Mod.                                              *)
(*                                                                         *)
(* newCells.  GolContext.newCells is scratch space of gol_step, cleared on *)
(* entry (line 59) and copied to cells on exit.  Inside one callback it is *)
(* threaded through the context record as the code does.  Between          *)
(* callbacks the program's state keeps it, but the model does not: a frame *)
(* starts with the opaque value Stale in it, which gol_step overwrites     *)
(* before any read (a read of it would stop TLC with an error).  SpecStep, *)
(* SpecScratch and SpecBlinker run gol_step on concrete stale contents.    *)
(***************************************************************************)
EXTENDS Integers, Sequences, FiniteSets, TLC

VARIABLES
    pc,         \* position of the program: which callback runs or may run next
    dim,        \* [w, h]: GAME_WIDTH and GAME_HEIGHT of this run
    res,        \* [appstate, window, renderer]: what SDL_AppInit acquired
    cells,      \* as->gol_ctx.cells
    i,          \* loop index of gol_initialize
    last_step,  \* as->last_step
    ticks,      \* latest value returned by SDL_GetTicks
    init_time,  \* history: the value line 214 stored in last_step
    last,       \* history: the most recent callback
    drawn,      \* history: the positions the running gol_initialize has drawn
                \* so far ({} when none runs)
    steps       \* history: the number of gol_step calls SpecBlinker has made

vars == <<pc, dim, res, cells, i, last_step, ticks, init_time, last, drawn, steps>>

---------------------------------------------------------------------------
(* Bounds of the model *)

MainWidth == 2
MainHeight == 2
StepWidth == 3
StepHeight == 3
StepRate == 2
MaxTicks == 6
MaxInitTicks == 1
Uint64Mod == 16
BlinkerMaxSide == 6
MaxBlinkerSteps == 30
ScratchWidth == 3
ScratchHeight == 2

(* Program constants *)

BLOCK_SIZE_IN_PIXELS == 24

STEP_RATE_IN_MILLISECONDS == StepRate

GAME_WIDTH == dim.w

GAME_HEIGHT == dim.h

NumCells == GAME_WIDTH * GAME_HEIGHT

Positions == 0 .. (NumCells - 1)

AllGrids == [Positions -> {0, 1}]

\* SDL_zeroa(array)
ZeroCells == [n \in Positions |-> 0]

OnesCells == [n \in Positions |-> 1]

\* Uint64 arithmetic
Sub64(a, b) == (a - b) % Uint64Mod

Add64(a, b) == (a + b) % Uint64Mod

---------------------------------------------------------------------------
(* Automaton engine *)

\* getAtPos on a grid that wraps: no bounds check, coordinates reduced
\* modulo the dimensions
MutGetAtPosWrap(ctx, x, y) ==
    ctx.cells[(x % GAME_WIDTH) + (y % GAME_HEIGHT) * GAME_WIDTH]

getAtPos(ctx, x, y) ==
    IF x < 0 \/ x >= GAME_WIDTH \/ y < 0 \/ y >= GAME_HEIGHT
    THEN 0
    ELSE ctx.cells[x + y * GAME_WIDTH]

\* the sum without its last term, the neighbour at (x + 1, y + 1)
MutNeighborsSeven(ctx, x, y) ==
      getAtPos(ctx, x - 1, y - 1)
    + getAtPos(ctx, x, y - 1)
    + getAtPos(ctx, x + 1, y - 1)
    + getAtPos(ctx, x - 1, y)
    + getAtPos(ctx, x + 1, y)
    + getAtPos(ctx, x - 1, y + 1)
    + getAtPos(ctx, x, y + 1)

\* lines 63-70: the sum of the eight getAtPos calls
Neighbors(ctx, x, y) ==
      getAtPos(ctx, x - 1, y - 1)
    + getAtPos(ctx, x, y - 1)
    + getAtPos(ctx, x + 1, y - 1)
    + getAtPos(ctx, x - 1, y)
    + getAtPos(ctx, x + 1, y)
    + getAtPos(ctx, x - 1, y + 1)
    + getAtPos(ctx, x, y + 1)
    + getAtPos(ctx, x + 1, y + 1)

\* the loop body with the birth test written neighbors >= 3: no death by
\* overcrowding
MutStepCellOvercrowd(ctx, x, y) ==
    LET neighbors == Neighbors(ctx, x, y)
        idx == x + y * GAME_WIDTH
        nc1 == IF neighbors = 2
               THEN [ctx.newCells EXCEPT ![idx] = getAtPos(ctx, x, y)]
               ELSE ctx.newCells
        nc2 == IF neighbors >= 3 THEN [nc1 EXCEPT ![idx] = 1] ELSE nc1
    IN  [ctx EXCEPT !.newCells = nc2]

\* the loop body with a birth also where no neighbour is alive
MutStepCellSpontaneous(ctx, x, y) ==
    LET neighbors == Neighbors(ctx, x, y)
        idx == x + y * GAME_WIDTH
        nc1 == IF neighbors = 2
               THEN [ctx.newCells EXCEPT ![idx] = getAtPos(ctx, x, y)]
               ELSE ctx.newCells
        nc2 == IF neighbors = 3 \/ neighbors = 0
               THEN [nc1 EXCEPT ![idx] = 1]
               ELSE nc1
    IN  [ctx EXCEPT !.newCells = nc2]

\* lines 63-77: the body of the double loop for one (x, y)
StepCell(ctx, x, y) ==
    LET neighbors == Neighbors(ctx, x, y)
        idx == x + y * GAME_WIDTH
        nc1 == IF neighbors = 2
               THEN [ctx.newCells EXCEPT ![idx] = getAtPos(ctx, x, y)]
               ELSE ctx.newCells
        nc2 == IF neighbors = 3 THEN [nc1 EXCEPT ![idx] = 1] ELSE nc1
    IN  [ctx EXCEPT !.newCells = nc2]

\* lines 61-79: x is the outer loop, y the inner one; k counts the iterations
RECURSIVE StepLoop(_, _)
StepLoop(ctx, k) ==
    IF k >= NumCells
    THEN ctx
    ELSE StepLoop(StepCell(ctx, k \div GAME_HEIGHT, k % GAME_HEIGHT), k + 1)

\* lines 81-83
CopyBack(ctx) == [ctx EXCEPT !.cells = ctx.newCells]

\* gol_step without line 59: newCells is not cleared first
MutGolStepNoClear(ctx) == CopyBack(StepLoop(ctx, 0))

gol_step(ctx) ==
    CopyBack(StepLoop([ctx EXCEPT !.newCells = ZeroCells], 0))

\* newCells when a frame starts: content the model does not track
Stale == "stale"

\* newCells contents gol_step is run on in SpecStep
EntryScratch == {OnesCells, cells}


---------------------------------------------------------------------------
(* History record of the most recent callback *)

NoEvent == [type |-> "NONE", scancode |-> "NONE"]

NoCallback ==
    [kind |-> "none", result |-> "NONE", ev |-> NoEvent, now |-> 0,
     entry_last |-> 0, entry_cells |-> ZeroCells, trace |-> <<>>]

\* one call a callback makes, with the source line that makes it; the
\* trace holds the calls in program order
Call(line, op, arg) == [line |-> line, op |-> op, arg |-> arg]

\* the events the run loop may deliver
Scancodes == {"ESCAPE", "Q", "R", "A"}

Events ==
    {[type |-> "QUIT", scancode |-> "NONE"],
     [type |-> "MOUSE_MOTION", scancode |-> "NONE"],
     [type |-> "KEY_UP", scancode |-> "Q"]}
    \cup [type : {"KEY_DOWN"}, scancode : Scancodes]

---------------------------------------------------------------------------
(* gol_initialize: lines 39-46 *)

\* gol_initialize without line 40: the grid is not cleared first
MutBeginInitializeKeep ==
    /\ cells' = cells
    /\ i' = 0
    /\ drawn' = {}

\* line 40, and the loop of line 42 set up
BeginInitialize ==
    /\ cells' = ZeroCells
    /\ i' = 0
    /\ drawn' = {}

InitializeDone == i >= NumCells \div 2

\* a draw that toggles the cell instead of setting it
MutDrawCellToggle(n) == [cells EXCEPT ![n] = 1 - cells[n]]

\* a draw that counts how often the cell was drawn
MutDrawCellCount(n) == [cells EXCEPT ![n] = cells[n] + 1]

\* lines 43-44: one draw of SDL_rand(GAME_WIDTH * GAME_HEIGHT)
DrawCell(n) == [cells EXCEPT ![n] = 1]

gol_initialize_draw ==
    /\ pc \in {"init_draw", "restart_draw"}
    /\ ~InitializeDone
    /\ \E n \in Positions :
          /\ cells' = DrawCell(n)
          /\ i' = i + 1
          /\ drawn' = drawn \cup {n}
    /\ UNCHANGED <<pc, dim, res, last_step, ticks, init_time, last, steps>>

---------------------------------------------------------------------------
(* SDL_AppInit: lines 145-217 *)

\* the calls of lines 148-195 that may fail, in program order; the loop of
\* line 152 runs over the four entries of extended_metadata
InitSteps ==
    <<Call(148, "SDL_SetAppMetadata", <<>>),
      Call(153, "SDL_SetAppMetadataProperty", 0),
      Call(153, "SDL_SetAppMetadataProperty", 1),
      Call(153, "SDL_SetAppMetadataProperty", 2),
      Call(153, "SDL_SetAppMetadataProperty", 3),
      Call(158, "SDL_Init", <<>>),
      Call(163, "SDL_calloc", <<>>),
      Call(171, "SDL_CreateWindow", <<>>),
      Call(191, "SDL_CreateRenderer", <<>>)>>

NoResources == [appstate |-> FALSE, window |-> FALSE, renderer |-> FALSE]

\* lines 168, 171, 191: what a successful call leaves in *appstate and in
\* the AppState
Acquire(held, call) ==
    [appstate |-> (held.appstate \/ call.op = "SDL_calloc"),
     window   |-> (held.window \/ call.op = "SDL_CreateWindow"),
     renderer |-> (held.renderer \/ call.op = "SDL_CreateRenderer")]

InitStart == [res |-> NoResources, result |-> "NONE", trace |-> <<>>]

\* the function going on to the next call after a call failed, and
\* returning failure after the last one
RECURSIVE MutInitRunNoReturn(_, _, _)
MutInitRunNoReturn(st, k, failed) ==
    IF k > Len(InitSteps)
    THEN [st EXCEPT !.result = IF failed = 0 THEN "CONTINUE" ELSE "FAILURE"]
    ELSE LET called == [st EXCEPT !.trace = Append(st.trace, InitSteps[k])]
         IN  IF k = failed
             THEN MutInitRunNoReturn(called, k + 1, failed)
             ELSE MutInitRunNoReturn(
                      [called EXCEPT !.res = Acquire(called.res, InitSteps[k])],
                      k + 1, failed)

\* lines 148-195 from call k on, call number failed failing (0: none does)
RECURSIVE InitRun(_, _, _)
InitRun(st, k, failed) ==
    IF k > Len(InitSteps)
    THEN [st EXCEPT !.result = "CONTINUE"]
    ELSE LET called == [st EXCEPT !.trace = Append(st.trace, InitSteps[k])]
         IN  IF k = failed
             THEN [called EXCEPT !.result = "FAILURE"]
             ELSE InitRun([called EXCEPT !.res = Acquire(called.res, InitSteps[k])],
                          k + 1, failed)

\* the handles held when the initialization call numbered failed fails
\* (failed = 0: none fails)
Acquired(failed) == InitRun(InitStart, 1, failed).res

SDL_AppInit_fail ==
    /\ pc = "start"
    /\ \E failed \in 1 .. Len(InitSteps) :
       \E run \in {InitRun(InitStart, 1, failed)} :
          /\ res' = run.res
          /\ last' = [NoCallback EXCEPT !.kind = "init",
                                        !.result = run.result,
                                        !.trace = run.trace]
    /\ pc' = "failed"
    /\ UNCHANGED <<dim, cells, i, last_step, ticks, init_time, drawn, steps>>

\* every call up to line 195 succeeded; line 213 starts gol_initialize
SDL_AppInit_begin ==
    /\ pc = "start"
    /\ \E run \in {InitRun(InitStart, 1, 0)} :
          /\ res' = run.res
          /\ last' = [NoCallback EXCEPT
                         !.kind = "init",
                         !.trace = Append(run.trace, Call(213, "gol_initialize", <<>>))]
    /\ BeginInitialize
    /\ pc' = "init_draw"
    /\ UNCHANGED <<dim, last_step, ticks, init_time, steps>>

\* line 214 storing the time the first step is due instead of the time read
MutAppInitReturnDue ==
    /\ pc = "init_draw"
    /\ InitializeDone
    /\ \E t \in ticks .. MaxInitTicks :
          /\ ticks' = t
          /\ last_step' = Add64(t, STEP_RATE_IN_MILLISECONDS)
          /\ init_time' = t
          /\ last' = [last EXCEPT !.result = "CONTINUE",
                                  !.trace = Append(@, Call(214, "SDL_GetTicks", t))]
    /\ drawn' = {}
    /\ pc' = "running"
    /\ UNCHANGED <<dim, res, cells, i, steps>>

\* lines 214-216
SDL_AppInit_return ==
    /\ pc = "init_draw"
    /\ InitializeDone
    /\ \E t \in ticks .. MaxInitTicks :
          /\ ticks' = t
          /\ last_step' = t
          /\ init_time' = t
          /\ last' = [last EXCEPT !.result = "CONTINUE",
                                  !.trace = Append(@, Call(214, "SDL_GetTicks", t))]
    /\ drawn' = {}
    /\ pc' = "running"
    /\ UNCHANGED <<dim, res, cells, i, steps>>

---------------------------------------------------------------------------
(* SDL_AppEvent and handle_key_event_: lines 86-97, 219-227 *)

EventRecord(e, result) ==
    [NoCallback EXCEPT !.kind = "event", !.ev = e, !.result = result,
                       !.entry_last = last_step]

\* the callback returns result without having touched the state
EventReturn(e, result) ==
    /\ last' = EventRecord(e, result)
    /\ pc' = IF result = "CONTINUE" THEN "running" ELSE "terminated"
    /\ UNCHANGED <<dim, res, cells, i, last_step, ticks, init_time, drawn, steps>>

\* the R case also restarting the step schedule at the latest clock reading
MutRestartBeginResetClock(e) ==
    /\ BeginInitialize
    /\ last' = EventRecord(e, "NONE")
    /\ last_step' = ticks
    /\ pc' = "restart_draw"
    /\ UNCHANGED <<dim, res, ticks, init_time, steps>>

\* line 92: case SDL_SCANCODE_R, up to the first draw of gol_initialize
RestartBegin(e) ==
    /\ BeginInitialize
    /\ last' = EventRecord(e, "NONE")
    /\ pc' = "restart_draw"
    /\ UNCHANGED <<dim, res, last_step, ticks, init_time, steps>>

\* the key handler with the R case as the default case
MutHandleKeyDefaultRestart(e) ==
    \/ /\ e.scancode \in {"ESCAPE", "Q"}
       /\ EventReturn(e, "SUCCESS")
    \/ /\ e.scancode \notin {"ESCAPE", "Q"}
       /\ RestartBegin(e)

handle_key_event_(e) ==
    \/ /\ e.scancode \in {"ESCAPE", "Q"}
       /\ EventReturn(e, "SUCCESS")
    \/ /\ e.scancode = "R"
       /\ RestartBegin(e)
    \/ /\ e.scancode \notin {"ESCAPE", "Q", "R"}
       /\ EventReturn(e, "CONTINUE")

\* the event callback handing key releases to the key handler too
MutAppEventKeyUp(e) ==
    /\ pc = "running"
    /\ \/ /\ e.type = "QUIT"
          /\ EventReturn(e, "SUCCESS")
       \/ /\ e.type \in {"KEY_DOWN", "KEY_UP"}
          /\ handle_key_event_(e)
       \/ /\ e.type \notin {"QUIT", "KEY_DOWN", "KEY_UP"}
          /\ EventReturn(e, "CONTINUE")

SDL_AppEvent(e) ==
    /\ pc = "running"
    /\ \/ /\ e.type = "QUIT"
          /\ EventReturn(e, "SUCCESS")
       \/ /\ e.type = "KEY_DOWN"
          /\ handle_key_event_(e)
       \/ /\ e.type \notin {"QUIT", "KEY_DOWN"}
          /\ EventReturn(e, "CONTINUE")

\* line 92 "break", then line 96: gol_initialize returned to the key handler
handle_key_event_return ==
    /\ pc = "restart_draw"
    /\ InitializeDone
    /\ last' = [last EXCEPT !.result = "CONTINUE"]
    /\ drawn' = {}
    /\ pc' = "running"
    /\ UNCHANGED <<dim, res, cells, i, last_step, ticks, init_time, steps>>

Event == \E e \in Events : SDL_AppEvent(e)

---------------------------------------------------------------------------
(* SDL_AppIterate: lines 100-133 *)

Emit(st, line, op, arg) ==
    [st EXCEPT !.trace = Append(st.trace, Call(line, op, arg))]

\* lines 34-37
set_rect_xy_(r, x, y) ==
    [r EXCEPT !.x = x * BLOCK_SIZE_IN_PIXELS, !.y = y * BLOCK_SIZE_IN_PIXELS,
              !.assigned = TRUE]

\* SDL_RenderFillRect(as->renderer, &r)
FillRect(st, line) ==
    Emit(st, line, "RenderFillRect", <<st.r.x, st.r.y, st.r.w, st.r.h>>)

\* the loop condition written with > instead of >=
MutBehindLate(st, now) == Sub64(now, st.last_step) > STEP_RATE_IN_MILLISECONDS

\* line 112: the condition of the catch-up loop
Behind(st, now) == Sub64(now, st.last_step) >= STEP_RATE_IN_MILLISECONDS

\* lines 113-114: the body of the catch-up loop
CatchUpBody(st) ==
    LET ctx == gol_step([cells |-> st.cells, newCells |-> st.newCells])
    IN  Emit([st EXCEPT !.cells = ctx.cells,
                        !.newCells = ctx.newCells,
                        !.last_step = Add64(st.last_step, STEP_RATE_IN_MILLISECONDS)],
             113, "gol_step", <<>>)

\* the catch-up loop written do ... while: the body runs before the test
RECURSIVE MutCatchUpDoWhile(_, _)
MutCatchUpDoWhile(st, now) ==
    IF Behind(CatchUpBody(st), now)
    THEN MutCatchUpDoWhile(CatchUpBody(st), now)
    ELSE CatchUpBody(st)

\* one step when behind, then last_step set to the current time
MutCatchUpDrift(st, now) ==
    IF Behind(st, now) THEN [CatchUpBody(st) EXCEPT !.last_step = now] ELSE st

\* lines 112-115
RECURSIVE CatchUp(_, _)
CatchUp(st, now) ==
    IF Behind(st, now) THEN CatchUp(CatchUpBody(st), now) ELSE st

\* lines 124-127: the body of the drawing loop for one (i, j)
DrawCellRect(st, ci, cj) ==
    IF st.cells[ci + cj * GAME_WIDTH] # 0
    THEN FillRect([st EXCEPT !.r = set_rect_xy_(st.r, ci, cj)], 126)
    ELSE st

\* lines 122-129: i is the outer loop, j the inner one; k counts the iterations
RECURSIVE DrawLoop(_, _)
DrawLoop(st, k) ==
    IF k >= NumCells
    THEN st
    ELSE DrawLoop(DrawCellRect(st, k \div GAME_HEIGHT, k % GAME_HEIGHT), k + 1)

\* lines 117-120
RenderBegin(st) ==
    LET s1 == [st EXCEPT !.r.w = BLOCK_SIZE_IN_PIXELS - 1,
                         !.r.h = BLOCK_SIZE_IN_PIXELS - 1]
        s2 == Emit(s1, 118, "SetRenderDrawColor", <<96, 96, 96, "SDL_ALPHA_OPAQUE">>)
        s3 == Emit(s2, 119, "RenderClear", <<>>)
    IN  Emit(s3, 120, "SetRenderDrawColor", <<255, 255, 0, "SDL_ALPHA_OPAQUE">>)

\* r is declared without an initializer (line 104): until set_rect_xy_ has
\* assigned them, r.x and r.y hold whatever the stack held, the pixel origin
\* of a cell or not
Indeterminate == {<<-1, -1>>, <<0, 0>>, <<0, BLOCK_SIZE_IN_PIXELS>>}

\* the values a read of r.x and r.y may yield
RectOrigins(st) ==
    IF st.r.assigned THEN {<<st.r.x, st.r.y>>} ELSE Indeterminate

\* lines 130-131, r.x and r.y reading as g
RenderEnd(st, g) ==
    Emit(FillRect([st EXCEPT !.r.x = g[1], !.r.y = g[2]], 130),
         131, "RenderPresent", <<>>)

\* lines 117-129
RenderCells(st) == DrawLoop(RenderBegin(st), 0)

\* the locals and the fields the callback works on, at its entry
FrameEntry ==
    [cells |-> cells, newCells |-> Stale, last_step |-> last_step,
     r |-> [x |-> 0, y |-> 0, w |-> 0, h |-> 0, assigned |-> FALSE],
     trace |-> <<>>]

\* the frame drawn before the catch-up loop runs
MutFrameBodyDrawFirst(now) == CatchUp(RenderCells(FrameEntry), now)

\* lines 103-129
FrameBody(now) == RenderCells(CatchUp(FrameEntry, now))

SDL_AppIterate(now) ==
    /\ pc = "running"
    /\ \E body \in {FrameBody(now)} :
          \E g \in RectOrigins(body) :
             /\ cells' = body.cells
             /\ last_step' = body.last_step
             /\ last' = [NoCallback EXCEPT !.kind = "frame",
                                           !.result = "CONTINUE",
                                           !.now = now,
                                           !.entry_last = last_step,
                                           !.entry_cells = cells,
                                           !.trace = RenderEnd(body, g).trace]
    /\ ticks' = now
    /\ pc' = "running"
    /\ UNCHANGED <<dim, res, i, init_time, drawn, steps>>

\* SDL_GetTicks is monotonic: line 103 reads a value not below the last one
Frame == \E now \in ticks .. MaxTicks : SDL_AppIterate(now)

\* line 103 with a clock that may return any Uint64
FrameAnyClock == \E now \in 0 .. (Uint64Mod - 1) : SDL_AppIterate(now)

---------------------------------------------------------------------------
(* SDL_AppQuit: lines 229-236 *)

\* the handle field as it is passed: the handle, or the null calloc left
Handle(held, name) == IF held THEN name ELSE "NULL"

\* the callback without the call of line 233
MutAppQuitTraceNoWindow(held) ==
    IF held.appstate
    THEN <<Call(232, "SDL_DestroyRenderer", Handle(held.renderer, "renderer")),
           Call(234, "SDL_free", Handle(held.appstate, "appstate"))>>
    ELSE <<>>

\* lines 230-235: the calls made when *appstate and the handles are as held
AppQuitTrace(held) ==
    IF held.appstate
    THEN <<Call(232, "SDL_DestroyRenderer", Handle(held.renderer, "renderer")),
           Call(233, "SDL_DestroyWindow", Handle(held.window, "window")),
           Call(234, "SDL_free", Handle(held.appstate, "appstate"))>>
    ELSE <<>>

\* what is still held after the calls of trace
Release(held, trace) ==
    [h \in DOMAIN held |->
        held[h] /\ ~(\E k \in 1 .. Len(trace) : trace[k].arg = h)]

\* the run loop calls SDL_AppQuit once, after SDL_AppInit returned failure
\* or a callback returned success
SDL_AppQuit ==
    /\ pc \in {"failed", "terminated"}
    /\ \E trace \in {AppQuitTrace(res)} :
          /\ res' = Release(res, trace)
          /\ last' = [NoCallback EXCEPT !.kind = "quit", !.trace = trace]
    /\ pc' = "quit"
    /\ UNCHANGED <<dim, cells, i, last_step, ticks, init_time, drawn, steps>>

---------------------------------------------------------------------------
(* The program *)

Init ==
    /\ pc = "start"
    /\ dim = [w |-> MainWidth, h |-> MainHeight]
    /\ res = NoResources
    /\ cells = ZeroCells
    /\ i = 0
    /\ last_step = 0
    /\ ticks = 0
    /\ init_time = 0
    /\ last = NoCallback
    /\ drawn = {}
    /\ steps = 0

Next ==
    \/ SDL_AppInit_fail
    \/ SDL_AppInit_begin
    \/ gol_initialize_draw
    \/ SDL_AppInit_return
    \/ Event
    \/ handle_key_event_return
    \/ Frame
    \/ SDL_AppQuit

Spec == Init /\ [][Next]_vars

---------------------------------------------------------------------------
(* The frame callback on every last_step and every clock value *)

SampleGrids ==
    {ZeroCells, OnesCells} \cup {[ZeroCells EXCEPT ![n] = 1] : n \in Positions}

InitClock ==
    /\ pc = "running"
    /\ dim = [w |-> MainWidth, h |-> MainHeight]
    /\ res = Acquired(0)
    /\ cells \in SampleGrids
    /\ i = NumCells \div 2
    /\ last_step \in 0 .. (Uint64Mod - 1)
    /\ ticks = 0
    /\ init_time = 0
    /\ last = NoCallback
    /\ drawn = {}
    /\ steps = 0

\* the callback is applied once to each input
NextClock == last.kind = "none" /\ FrameAnyClock

SpecAnyClock == InitClock /\ [][NextClock]_vars

---------------------------------------------------------------------------
(* gol_step on every grid *)

ApplyStep ==
    /\ pc = "step"
    /\ \E scratch \in EntryScratch :
          cells' = gol_step([cells |-> cells, newCells |-> scratch]).cells
    /\ last' = [NoCallback EXCEPT !.kind = "step", !.entry_cells = cells]
    /\ steps' = steps + 1
    /\ UNCHANGED <<pc, dim, res, i, last_step, ticks, init_time, drawn>>

InitStep ==
    /\ pc = "step"
    /\ dim = [w |-> StepWidth, h |-> StepHeight]
    /\ res = NoResources
    /\ cells \in AllGrids
    /\ i = 0
    /\ last_step = 0
    /\ ticks = 0
    /\ init_time = 0
    /\ last = NoCallback
    /\ drawn = {}
    /\ steps = 0

\* gol_step is applied once to each input
NextStep == last.kind = "none" /\ ApplyStep

SpecStep == InitStep /\ [][NextStep]_vars

---------------------------------------------------------------------------
(* gol_step applied again and again to the blinker, on grids of 5 x 5 cells
   and more *)

\* the grid whose live cells are those at the (x, y) of the set at
GridOf(at) ==
    [n \in Positions |->
        IF \E p \in at : n = p[1] + p[2] * GAME_WIDTH THEN 1 ELSE 0]

VerticalBar == GridOf({<<1, 0>>, <<1, 1>>, <<1, 2>>})

HorizontalBar == GridOf({<<0, 1>>, <<1, 1>>, <<2, 1>>})

InitBlinker ==
    /\ pc = "step"
    /\ dim \in [w : 5 .. BlinkerMaxSide, h : 5 .. BlinkerMaxSide]
    /\ res = NoResources
    /\ cells = VerticalBar
    /\ i = 0
    /\ last_step = 0
    /\ ticks = 0
    /\ init_time = 0
    /\ last = NoCallback
    /\ drawn = {}
    /\ steps = 0

NextBlinker == steps < MaxBlinkerSteps /\ ApplyStep

SpecBlinker == InitBlinker /\ [][NextBlinker]_vars

---------------------------------------------------------------------------
(* gol_step on every grid, the content of newCells before the call recorded *)

\* newCells contents gol_step is run on in SpecScratch
ScratchGrids ==
    {ZeroCells, OnesCells, cells, [n \in Positions |-> 1 - cells[n]]}

ApplyStepOn(scratch) ==
    /\ pc = "step"
    /\ cells' = gol_step([cells |-> cells, newCells |-> scratch]).cells
    /\ last' = [NoCallback EXCEPT !.kind = "step",
                                  !.entry_cells = cells,
                                  !.trace = <<Call(56, "gol_step", scratch)>>]
    /\ steps' = steps + 1
    /\ UNCHANGED <<pc, dim, res, i, last_step, ticks, init_time, drawn>>

InitScratch ==
    /\ pc = "step"
    /\ dim = [w |-> ScratchWidth, h |-> ScratchHeight]
    /\ res = NoResources
    /\ cells \in AllGrids
    /\ i = 0
    /\ last_step = 0
    /\ ticks = 0
    /\ init_time = 0
    /\ last = NoCallback
    /\ drawn = {}
    /\ steps = 0

\* gol_step is applied once to each input
NextScratch ==
    last.kind = "none" /\ \E scratch \in ScratchGrids : ApplyStepOn(scratch)

SpecScratch == InitScratch /\ [][NextScratch]_vars

---------------------------------------------------------------------------
(* Reference definitions the properties are stated with *)

CellX(n) == n % GAME_WIDTH

CellY(n) == n \div GAME_WIDTH

InGrid(x, y) == x >= 0 /\ x < GAME_WIDTH /\ y >= 0 /\ y < GAME_HEIGHT

Abs(v) == IF v < 0 THEN -v ELSE v

\* m is one of the cells of the grid next to n: no wrapping
Adjacent(n, m) ==
    /\ m # n
    /\ Abs(CellX(m) - CellX(n)) <= 1
    /\ Abs(CellY(m) - CellY(n)) <= 1

LiveNeighbours(c, n) == Cardinality({m \in Positions : c[m] = 1 /\ Adjacent(n, m)})

\* Conway's rule
LifeCell(c, n) ==
    IF \/ c[n] = 1 /\ LiveNeighbours(c, n) \in {2, 3}
       \/ c[n] = 0 /\ LiveNeighbours(c, n) = 3
    THEN 1
    ELSE 0

LifeStep(c) == [n \in Positions |-> LifeCell(c, n)]

RECURSIVE LifeIter(_, _)
LifeIter(c, k) == IF k = 0 THEN c ELSE LifeIter(LifeStep(c), k - 1)

AliveCells(c) == {n \in Positions : c[n] # 0}

\* the calls of the last callback's trace made with operation op
CallsOf(op) == {j \in 1 .. Len(last.trace) : last.trace[j].op = op}

\* the number of engine steps the last callback ran
FrameSteps == Cardinality(CallsOf("gol_step"))

AfterInit == pc \in {"running", "restart_draw", "terminated"}

IsQuit(e) ==
    \/ e.type = "QUIT"
    \/ e.type = "KEY_DOWN" /\ e.scancode \in {"ESCAPE", "Q"}

IsRestart(e) == e.type = "KEY_DOWN" /\ e.scancode = "R"

---------------------------------------------------------------------------
(* C1 *)

\* C1: one gol_step sets every cell to Alive exactly when it was Alive with 2
\* or 3 live neighbours or Dead with exactly 3, and to Dead otherwise: the
\* result equals the reference Life step on every grid (SpecStep).
TheoremC1 ==
    last.kind = "step" =>
        \A n \in Positions :
           \E k \in {LiveNeighbours(last.entry_cells, n)} :
              cells[n] = IF last.entry_cells[n] = 1
                         THEN (IF k \in {2, 3} THEN 1 ELSE 0)
                         ELSE (IF k = 3 THEN 1 ELSE 0)

\* a step in which a live cell survived, a live cell without live neighbours
\* died, a dead cell was born and a dead cell with 4 or more stayed dead
WitnessC1 ==
    /\ last.kind = "step"
    /\ \E a, b, d \in Positions :
          LET c == last.entry_cells
          IN  /\ c[a] = 1 /\ LiveNeighbours(c, a) \in {2, 3} /\ cells[a] = 1
              /\ c[b] = 0 /\ LiveNeighbours(c, b) = 3 /\ cells[b] = 1
              /\ c[d] = 0 /\ LiveNeighbours(c, d) >= 4 /\ cells[d] = 0
    /\ \E n \in Positions :
          /\ last.entry_cells[n] = 1
          /\ LiveNeighbours(last.entry_cells, n) = 0
          /\ cells[n] = 0

---------------------------------------------------------------------------
(* C2 *)

\* the grid c with every cell that is neither n nor next to n inverted
FarFlipped(c, n) ==
    [m \in Positions |-> IF m = n \/ Adjacent(n, m) THEN c[m] ELSE 1 - c[m]]

\* the next state gol_step computes for cell n of grid c
NextOfCell(c, n) ==
    StepCell([cells |-> c, newCells |-> ZeroCells], CellX(n), CellY(n)).newCells[n]

\* C2: the grid never wraps.  getAtPos returns 0 for every position outside
\* the grid and the stored cell inside it; the neighbour count of a cell is
\* the number of live cells among its adjacent positions, and the next state
\* of a cell does not depend on any cell that is not adjacent to it (SpecStep).
TheoremC2 ==
    last.kind = "step" =>
        \E ctx \in {[cells |-> last.entry_cells, newCells |-> ZeroCells]} :
           /\ \A x \in (0 - GAME_WIDTH) .. (2 * GAME_WIDTH - 1) :
              \A y \in (0 - GAME_HEIGHT) .. (2 * GAME_HEIGHT - 1) :
                 getAtPos(ctx, x, y) =
                     IF InGrid(x, y) THEN ctx.cells[x + y * GAME_WIDTH] ELSE 0
           /\ \A n \in Positions :
                 /\ Neighbors(ctx, CellX(n), CellY(n)) = LiveNeighbours(ctx.cells, n)
                 /\ cells[n] = NextOfCell(FarFlipped(ctx.cells, n), n)

\* a step on a grid whose corner (0, 0) is dead with no live cell next to it
\* while the whole opposite column and row are alive: the corner stays dead
WitnessC2 ==
    /\ last.kind = "step"
    /\ last.entry_cells[0] = 0
    /\ LiveNeighbours(last.entry_cells, 0) = 0
    /\ \A m \in Positions :
          (CellX(m) = GAME_WIDTH - 1 \/ CellY(m) = GAME_HEIGHT - 1)
              => last.entry_cells[m] = 1
    /\ cells[0] = 0

---------------------------------------------------------------------------
(* C3 *)

\* C3: a frame called with now = last_step + k * step_interval + r, k >= 0
\* and 0 <= r < step_interval, runs exactly k engine steps, advances
\* last_step by k * step_interval, leaves the grid k generations later and
\* returns (Spec).
TheoremC3 ==
    (last.kind = "frame" /\ last.now >= last.entry_last) =>
        LET k == (last.now - last.entry_last) \div STEP_RATE_IN_MILLISECONDS
        IN  /\ FrameSteps = k
            /\ last_step = last.entry_last + k * STEP_RATE_IN_MILLISECONDS
            /\ cells = LifeIter(last.entry_cells, k)
            /\ last.result = "CONTINUE"
            /\ last.trace[Len(last.trace)].op = "RenderPresent"

\* the stated case: k = 3, r = 0, on a grid with live cells
WitnessC3 ==
    /\ last.kind = "frame"
    /\ last.now = last.entry_last + 3 * STEP_RATE_IN_MILLISECONDS
    /\ FrameSteps = 3
    /\ last.entry_cells # ZeroCells

---------------------------------------------------------------------------
(* C4 *)

FrameRanNoStep ==
    /\ FrameSteps = 0
    /\ last_step = last.entry_last
    /\ cells = last.entry_cells

---------------------------------------------------------------------------
(* C5 *)

\* C5: after initialization last_step is the time read at init plus a whole
\* non-negative multiple of step_interval; a frame changes it by
\* step_interval per engine step it ran, an event not at all (Spec).
TheoremC5 ==
    AfterInit =>
        /\ last_step >= init_time
        /\ (last_step - init_time) % STEP_RATE_IN_MILLISECONDS = 0
        /\ last.kind = "frame" =>
              last_step = last.entry_last + FrameSteps * STEP_RATE_IN_MILLISECONDS
        /\ last.kind = "event" => last_step = last.entry_last
        /\ last.kind = "init" => last_step = init_time

\* last_step two periods after init while the clock reads a time that is
\* no multiple of the period away from init
WitnessC5 ==
    /\ AfterInit
    /\ last.kind = "frame"
    /\ last_step = init_time + 2 * STEP_RATE_IN_MILLISECONDS
    /\ (ticks - init_time) % STEP_RATE_IN_MILLISECONDS # 0

---------------------------------------------------------------------------
(* C6 *)

\* the square the rendering contract draws for cell n
SquareOf(n) ==
    <<CellX(n) * BLOCK_SIZE_IN_PIXELS, CellY(n) * BLOCK_SIZE_IN_PIXELS,
      BLOCK_SIZE_IN_PIXELS - 1, BLOCK_SIZE_IN_PIXELS - 1>>

\* C6 as stated: in a frame the filled squares are exactly those of the Alive
\* cells of the current grid: every Alive cell gets its square, every
\* fillRect call is the square of an Alive cell, and an all-Dead grid gets
\* no square (Spec).
ClaimC6 ==
    last.kind = "frame" =>
        /\ \A n \in AliveCells(cells) :
              \E j \in CallsOf("RenderFillRect") : last.trace[j].arg = SquareOf(n)
        /\ \A j \in CallsOf("RenderFillRect") :
              \E n \in AliveCells(cells) : last.trace[j].arg = SquareOf(n)
        /\ AliveCells(cells) = {} => CallsOf("RenderFillRect") = {}

---------------------------------------------------------------------------
(* C7 *)

\* C7: every frame issues exactly one clear and one present, both after all
\* its catch-up steps, the present last; the squares its drawing loop fills
\* lie between the two and are those of the grid after the last catch-up
\* step (Spec).
TheoremC7 ==
    last.kind = "frame" =>
        /\ Cardinality(CallsOf("RenderClear")) = 1
        /\ Cardinality(CallsOf("RenderPresent")) = 1
        /\ last.trace[Len(last.trace)].op = "RenderPresent"
        /\ \A s \in CallsOf("gol_step"), c \in CallsOf("RenderClear") : s < c
        /\ \A f \in CallsOf("RenderFillRect"), c \in CallsOf("RenderClear") : c < f
        /\ {last.trace[j].arg :
               j \in {f \in CallsOf("RenderFillRect") : last.trace[f].line = 126}}
              = {SquareOf(n) : n \in AliveCells(LifeIter(last.entry_cells, FrameSteps))}
        /\ cells = LifeIter(last.entry_cells, FrameSteps)

\* a frame that ran several steps on a grid they changed and drew the result
WitnessC7 ==
    /\ last.kind = "frame"
    /\ FrameSteps >= 2
    /\ last.entry_cells # cells
    /\ Cardinality(CallsOf("RenderClear")) = 1
    /\ Cardinality(CallsOf("RenderPresent")) = 1

\* a frame that ran no step and drew a grid with live cells
WitnessC7NoStep ==
    /\ last.kind = "frame"
    /\ FrameSteps = 0
    /\ cells # ZeroCells
    /\ \E f \in CallsOf("RenderFillRect") : last.trace[f].line = 126

---------------------------------------------------------------------------
(* C8 *)

\* C8: the event callback returns success exactly for Quit and for a KeyDown
\* of Escape or Q and Continue for every other event, the frame callback
\* always returns Continue, and the program is Terminated only after one of
\* those three inputs (Spec).
TheoremC8 ==
    /\ (last.kind = "event" /\ pc # "restart_draw") =>
          /\ last.result = (IF IsQuit(last.ev) THEN "SUCCESS" ELSE "CONTINUE")
          /\ pc = (IF IsQuit(last.ev) THEN "terminated" ELSE "running")
    /\ pc = "restart_draw" => (last.kind = "event" /\ IsRestart(last.ev))
    /\ last.kind = "frame" => (last.result = "CONTINUE" /\ pc = "running")
    /\ pc = "terminated" =>
          (last.kind = "event" /\ IsQuit(last.ev) /\ last.result = "SUCCESS")

\* terminated by a KeyDown of Q
WitnessC8 ==
    /\ pc = "terminated"
    /\ last.ev = [type |-> "KEY_DOWN", scancode |-> "Q"]
    /\ last.result = "SUCCESS"

\* still running after the release of the Q key
WitnessC8KeyUp ==
    /\ pc = "running"
    /\ last.ev = [type |-> "KEY_UP", scancode |-> "Q"]
    /\ last.result = "CONTINUE"

---------------------------------------------------------------------------
(* C9 *)

Ignored(e) == e \in Events /\ ~IsQuit(e) /\ ~IsRestart(e)

\* C9: an event other than Quit and KeyDown of Escape, Q or R leaves the grid
\* and last_step unchanged and the program Running (Spec).
TheoremC9 ==
    [][(pc = "running" /\ last'.kind = "event" /\ Ignored(last'.ev))
          => (cells' = cells /\ last_step' = last_step /\ pc' = "running")]_vars

\* an ignored key press delivered while the grid has live cells and the
\* clock has advanced
WitnessC9 ==
    /\ last.kind = "event"
    /\ last.ev = [type |-> "KEY_DOWN", scancode |-> "A"]
    /\ pc = "running"
    /\ cells # ZeroCells
    /\ last_step > init_time

---------------------------------------------------------------------------
(* C10 *)

\* the step changed the grid as the engine steps of one frame do
ChangedByFrameSteps ==
    /\ last'.kind = "frame"
    /\ Cardinality({j \in 1 .. Len(last'.trace) : last'.trace[j].op = "gol_step"}) >= 1
    /\ pc = "running"

\* the step changed the grid as gol_initialize, called for an R key, does
ChangedByRestart ==
    /\ pc' = "restart_draw"
    /\ last'.kind = "event"
    /\ IsRestart(last'.ev)
    /\ \/ pc = "running" /\ cells' = ZeroCells
       \/ /\ pc = "restart_draw"
          /\ \E n \in Positions : cells' = [cells EXCEPT ![n] = 1]

\* C10 as stated: after initialization only an engine step run by the frame
\* callback changes a cell of the current grid (Spec).
OriginalC10 ==
    [][(AfterInit /\ cells' # cells) => ChangedByFrameSteps]_vars

\* C10, amended: after initialization a cell of the current grid is changed
\* only by an engine step run by the frame callback or by gol_initialize
\* called by the key handler for an R key (Spec).
TheoremC10 ==
    [][(AfterInit /\ cells' # cells) =>
          (ChangedByFrameSteps \/ ChangedByRestart)]_vars

\* gol_initialize at work for an R key, after engine steps have run
WitnessC10 ==
    /\ pc = "restart_draw"
    /\ i > 0
    /\ cells # ZeroCells
    /\ last_step > init_time

---------------------------------------------------------------------------
(* C11 *)

InInitialize == pc \in {"init_draw", "restart_draw"}

\* C11: gol_initialize, at start or for an R key, on any grid content, makes
\* exactly (width * height) / 2 draws; while it runs and when it is done the
\* Alive cells are exactly the distinct positions drawn so far and every
\* other cell is Dead, so at most (width * height) / 2 cells are Alive, that
\* many only when no position was drawn twice; an R key keeps the program
\* Running (Spec).
TheoremC11 ==
    /\ InInitialize =>
          /\ i <= NumCells \div 2
          /\ AliveCells(cells) = drawn
          /\ \A n \in Positions \ drawn : cells[n] = 0
          /\ Cardinality(AliveCells(cells)) <= i
          /\ (Cardinality(AliveCells(cells)) = i) = (Cardinality(drawn) = i)
    /\ pc \in {"running", "terminated"} => i = NumCells \div 2
    /\ (last.kind = "init" /\ last.result = "CONTINUE" /\ pc = "running") =>
          /\ Cardinality(AliveCells(cells)) \in 1 .. (NumCells \div 2)
          /\ \A n \in Positions : cells[n] \in {0, 1}
    /\ (last.kind = "event" /\ IsRestart(last.ev)) =>
          /\ pc \in {"restart_draw", "running"}
          /\ pc = "running" =>
                /\ last.result = "CONTINUE"
                /\ Cardinality(AliveCells(cells)) \in 1 .. (NumCells \div 2)

\* gol_initialize called for an R key on the grid SDL_AppInit left (no engine
\* step has run, so it has live cells) is done after drawing a position twice
WitnessC11 ==
    /\ pc = "restart_draw"
    /\ InitializeDone
    /\ last_step = init_time
    /\ Cardinality(drawn) < i
    /\ AliveCells(cells) = drawn

---------------------------------------------------------------------------
(* C12 *)

\* C12: once the grid is all Dead, a frame callback, whatever number of
\* catch-up steps it runs, and an event other than the R key leave it all
\* Dead (Spec).
TheoremC12 ==
    [][(/\ pc = "running"
        /\ cells = ZeroCells
        /\ ~(last'.kind = "event" /\ IsRestart(last'.ev)))
          => cells' = ZeroCells]_vars

\* a frame that ran several engine steps on an all-Dead grid
WitnessC12 ==
    /\ last.kind = "frame"
    /\ last.entry_cells = ZeroCells
    /\ FrameSteps >= 2
    /\ cells = ZeroCells

---------------------------------------------------------------------------
(* C13 *)

\* C13: on a grid of at least 5 x 5 cells that starts as the vertical bar
\* (1,0), (1,1), (1,2), one gol_step leaves exactly (0,1), (1,1), (2,1)
\* Alive, a second one exactly the vertical bar again, and so on with
\* period 2 for every further step (SpecBlinker).
TheoremC13 ==
    /\ cells = (IF steps % 2 = 0 THEN VerticalBar ELSE HorizontalBar)
    /\ last.kind = "step" =>
          last.entry_cells = (IF steps % 2 = 0 THEN HorizontalBar ELSE VerticalBar)
    /\ AliveCells(cells) =
          (IF steps % 2 = 0
           THEN {1, 1 + GAME_WIDTH, 1 + 2 * GAME_WIDTH}
           ELSE {GAME_WIDTH, 1 + GAME_WIDTH, 2 + GAME_WIDTH})

\* the 5 x 5 grid back at the vertical bar after the second step
WitnessC13 ==
    /\ dim = [w |-> 5, h |-> 5]
    /\ steps = 2
    /\ last.entry_cells = HorizontalBar
    /\ cells = VerticalBar

---------------------------------------------------------------------------
(* C14 *)

\* the double loop of gol_step, run from iteration k on context ctx, finds
\* the current buffer equal to snapshot before every iteration and after
\* the last one
RECURSIVE SnapshotKept(_, _, _)
SnapshotKept(ctx, k, snapshot) ==
    /\ ctx.cells = snapshot
    /\ k < NumCells =>
          SnapshotKept(StepCell(ctx, k \div GAME_HEIGHT, k % GAME_HEIGHT),
                       k + 1, snapshot)

\* C14: within one gol_step the current buffer keeps the generation the step
\* began with until every cell of the next buffer is computed; the grid the
\* step leaves is the complete next generation of that snapshot, cell by
\* cell, whatever newCells held before the step (SpecScratch).
TheoremC14 ==
    last.kind = "step" =>
        \E ctx \in {[cells |-> last.entry_cells, newCells |-> last.trace[1].arg]} :
           /\ SnapshotKept([ctx EXCEPT !.newCells = ZeroCells], 0, last.entry_cells)
           /\ StepLoop([ctx EXCEPT !.newCells = ZeroCells], 0).newCells
                 = LifeStep(last.entry_cells)
           /\ cells = LifeStep(last.entry_cells)
           /\ cells = gol_step([ctx EXCEPT !.newCells = ZeroCells]).cells

\* a step that began with newCells all 1, on a grid where a cell dies whose
\* death changes the neighbour count of a cell computed after it: a later
\* cell that survives with 2 live neighbours of which an earlier one died
WitnessC14 ==
    /\ last.kind = "step"
    /\ last.trace[1].arg = OnesCells
    /\ \E a, b \in Positions :
          /\ (CellX(a) * GAME_HEIGHT + CellY(a)) < (CellX(b) * GAME_HEIGHT + CellY(b))
          /\ Adjacent(a, b)
          /\ last.entry_cells[a] = 1 /\ cells[a] = 0
          /\ last.entry_cells[b] = 1 /\ cells[b] = 1
          /\ LiveNeighbours(last.entry_cells, b) = 2

---------------------------------------------------------------------------
(* C15 *)

AllResources == [appstate |-> TRUE, window |-> TRUE, renderer |-> TRUE]

\* the calls of InitSteps before the k-th include one of operation op
SucceededBefore(k, op) == \E j \in 1 .. (k - 1) : InitSteps[j].op = op

\* SDL_AppInit has returned failure after its k-th call: the calls made are
\* the first k in order, each once; what the earlier ones acquired is held;
\* the grid, the loop index and the clock are as they were before the call
InitFailedAt(k) ==
    /\ last.kind = "init"
    /\ last.result = "FAILURE"
    /\ last.trace = SubSeq(InitSteps, 1, k)
    /\ res = [appstate |-> SucceededBefore(k, "SDL_calloc"),
              window   |-> SucceededBefore(k, "SDL_CreateWindow"),
              renderer |-> FALSE]
    /\ cells = ZeroCells /\ i = 0 /\ drawn = {}
    /\ last_step = 0 /\ ticks = 0 /\ init_time = 0

\* SDL_AppInit has returned Continue: every call was made once, in order,
\* then gol_initialize, then the clock was read into last_step
InitSucceeded ==
    /\ last.result = "CONTINUE"
    /\ last.trace = InitSteps \o <<Call(213, "gol_initialize", <<>>),
                                   Call(214, "SDL_GetTicks", ticks)>>
    /\ res = AllResources
    /\ i = NumCells \div 2
    /\ AliveCells(cells) # {}
    /\ last_step = ticks /\ init_time = ticks

\* C15: when a call of SDL_AppInit fails, the function returns failure at
\* once: no later call is made, none is repeated, the grid is not
\* randomized, the clock is not read, and afterwards no frame, event or
\* engine step runs, only SDL_AppQuit; gol_initialize, frames and events run
\* only when every call succeeded, and then SDL_AppInit returns Continue
\* with the grid initialized and last_step set to the current time (Spec).
TheoremC15 ==
    [][/\ pc' = "failed" => \E k \in 1 .. Len(InitSteps) : InitFailedAt(k)'
       /\ pc = "failed" =>
             /\ pc' = "quit" /\ last'.kind = "quit"
             /\ cells' = cells /\ last_step' = last_step /\ ticks' = ticks
       /\ (pc = "start" /\ last'.result = "FAILURE") => pc' = "failed"
       /\ pc' \in {"init_draw", "running", "restart_draw", "terminated"} =>
             res' = AllResources
       /\ (pc' = "running" /\ last'.kind = "init") => InitSucceeded'
       /\ last'.kind \in {"frame", "event"} =>
             (pc \in {"running", "restart_draw"} /\ res = AllResources)
      ]_vars

\* SDL_AppInit has returned failure from the creation of the window, holding
\* the program state and no handle
WitnessC15 ==
    /\ pc = "failed"
    /\ last.result = "FAILURE"
    /\ last.trace[Len(last.trace)].op = "SDL_CreateWindow"
    /\ res = [appstate |-> TRUE, window |-> FALSE, renderer |-> FALSE]
    /\ cells = ZeroCells

---------------------------------------------------------------------------
(* C16 *)

\* C16: with clock readings that never decrease from the one taken at init,
\* last_step is never above the latest reading; every frame is entered with
\* last_step <= now, so the Uint64 difference of line 112 is the true
\* difference, and returns with last_step <= now and now - last_step below
\* step_interval (Spec).
TheoremC16 ==
    /\ AfterInit =>
          /\ last_step <= ticks
          /\ Sub64(ticks, last_step) = ticks - last_step
    /\ last.kind = "frame" =>
          /\ last.entry_last <= last.now
          /\ Sub64(last.now, last.entry_last) = last.now - last.entry_last
          /\ last_step <= last.now
          /\ last.now - last_step < STEP_RATE_IN_MILLISECONDS
          /\ ticks = last.now

\* a frame that ran engine steps and returned one tick before the next
\* step is due
WitnessC16 ==
    /\ last.kind = "frame"
    /\ FrameSteps >= 1
    /\ last.entry_last > init_time
    /\ last.now - last_step = STEP_RATE_IN_MILLISECONDS - 1

---------------------------------------------------------------------------
(* C17 *)

\* the R key has just been handled
RestartHandled ==
    /\ pc = "running"
    /\ last.kind = "event"
    /\ IsRestart(last.ev)

---------------------------------------------------------------------------
(* C18 *)

\* C18: from the first statement of gol_initialize on, through every draw,
\* engine step, frame and event, every cell of the grid holds 0 or 1, and
\* the neighbour count gol_step computes for a cell lies in 0..8 and is the
\* number of live cells next to it (Spec).
TheoremC18 ==
    (InInitialize \/ AfterInit) =>
        \A n \in Positions :
           /\ cells[n] \in {0, 1}
           /\ \E k \in {Neighbors([cells |-> cells, newCells |-> ZeroCells],
                                   CellX(n), CellY(n))} :
                 /\ k \in 0 .. 8
                 /\ k = Cardinality({m \in AliveCells(cells) : Adjacent(n, m)})

\* gol_initialize done for an R key after engine steps have run, on a grid
\* where a Dead cell has two live neighbours
WitnessC18 ==
    /\ pc = "restart_draw"
    /\ InitializeDone
    /\ last_step > init_time
    /\ \E n \in Positions :
          /\ cells[n] = 0
          /\ Neighbors([cells |-> cells, newCells |-> ZeroCells],
                       CellX(n), CellY(n)) = 2

---------------------------------------------------------------------------
(* C19 *)

\* the calls of the sequence trace made with operation op
CallsIn(trace, op) == {k \in 1 .. Len(trace) : trace[k].op = op}

\* trace passes handle h, held or not, once to operation op: the handle when
\* it is held, null when it was never created
PassedOnce(trace, op, held, h) ==
    /\ Cardinality(CallsIn(trace, op)) = 1
    /\ \A k \in CallsIn(trace, op) : trace[k].arg = (IF held THEN h ELSE "NULL")

\* C19: SDL_AppQuit runs once, after a failed init or after a callback
\* returned success.  When the program state was allocated it destroys the
\* renderer once and the window once, a handle that was never created being
\* passed as null, and then frees the state once; when it was not, it makes
\* no call and nothing was held.  Afterwards nothing is held and no step
\* follows (Spec).
TheoremC19 ==
    [][/\ pc' = "quit" =>
             /\ pc \in {"failed", "terminated"}
             /\ last'.kind = "quit"
             /\ res.appstate =>
                   /\ Len(last'.trace) = 3
                   /\ PassedOnce(last'.trace, "SDL_DestroyRenderer", res.renderer, "renderer")
                   /\ PassedOnce(last'.trace, "SDL_DestroyWindow", res.window, "window")
                   /\ PassedOnce(last'.trace, "SDL_free", TRUE, "appstate")
                   /\ last'.trace[3].op = "SDL_free"
             /\ ~res.appstate => (last'.trace = <<>> /\ res = NoResources)
             /\ \A h \in DOMAIN res :
                   Cardinality({k \in 1 .. Len(last'.trace) : last'.trace[k].arg = h})
                      = (IF res[h] THEN 1 ELSE 0)
             /\ res' = NoResources
       /\ pc # "quit"
      ]_vars

\* shutdown after the creation of the renderer failed: the window is
\* destroyed, the renderer passed as null, the state freed
WitnessC19 ==
    /\ pc = "quit"
    /\ last.kind = "quit"
    /\ last.trace = <<Call(232, "SDL_DestroyRenderer", "NULL"),
                      Call(233, "SDL_DestroyWindow", "window"),
                      Call(234, "SDL_free", "appstate")>>
    /\ res = NoResources
    /\ ticks = 0 /\ cells = ZeroCells

============================================================================
